---- MODULE Spec2Model ----
(***************************************************************************)
(* A model of wocket (src/src/main.rs): a WebSocket echo server.           *)
(*   - parse_ws_frame / write_ws_frame : the frame codec (pure functions)  *)
(*   - handshake_response / accept_value : the HTTP upgrade handshake      *)
(*   - handle_client : the per-connection task                             *)
(*   - main : the accept loop that spawns the tasks                        *)
(* Bytes are the integers 0..255; byte strings are sequences of bytes.     *)
(* Rust slices are 0-based, sequences here are 1-based: frame_buf[i] of    *)
(* the source is frame_buf[i + 1] below.                                   *)
(***************************************************************************)
EXTENDS Integers, Sequences, FiniteSets, TLC

VARIABLES
    test,         \* codec harness: which codec function the case calls
    message,      \* codec harness: the payload P
    masking_key,  \* codec harness: the 4-byte key K of the client frame
    tamper,       \* codec harness: how the client frame was altered
    frame_buf,    \* codec harness: the buffer handed to parse_ws_frame
    parsed,       \* codec harness: the result of parse_ws_frame
    frame,        \* codec harness: the result of write_ws_frame(message)
    request,      \* handshake harness: the request handed to handshake_response
    handshake,    \* handshake harness: the result of handshake_response(request)
    conn,         \* the connection tasks (handle_client), by connection number
    listener      \* main: "accepting" (in its loop) or "failed" (accept returned Err)

codecVars == <<test, message, masking_key, tamper, frame_buf, parsed, frame>>
vars == <<test, message, masking_key, tamper, frame_buf, parsed, frame,
          request, handshake, conn, listener>>

(***************************************************************************)
(* Bounds of the model.                                                    *)
(***************************************************************************)
MaxSmallLen == 2    \* every payload over SmallBytes up to this length
MaxTrim == 7        \* bytes cut from the end / kept from the start of a frame
MaxExtra == 1       \* bytes appended after the declared payload
MaxHeaders == 2     \* headers of a request
MaxReads == 4       \* reads the model follows, over all the connections
MaxConns == 2       \* connections the listener accepts

(***************************************************************************)
(* Constants of the program.                                               *)
(***************************************************************************)
InlineMax == 125    \* message.len() <= 125
Escape16 == 126     \* payload_len == 126 / frame.push(126)
Escape64 == 127     \* payload_len == 127
FinBinary == 130    \* 0b1000_0010
MaxPayload == 65535 \* the largest value of the u16 payload_len

Truncated == "Reached end of frame while parsing"
FragmentationUnsupported == "FIN bit not 1, payload is fragmented which we don't support"
UnsupportedOpcode == "Opcode field is not 0x2 which means the message is not binary"
MaskRequired == "Mask bit not 1, should never happen"
PayloadTooLarge == "Message longer than 65535 bytes, not supported"

(***************************************************************************)
(* Byte arithmetic: u8 ^ u8.                                               *)
(***************************************************************************)
Bit(a, k) == (a \div (2 ^ k)) % 2

XorBits(a, b, w) ==
    LET RECURSIVE go(_)
        go(k) == IF k = w THEN 0
                 ELSE (2 ^ k) * ((Bit(a, k) + Bit(b, k)) % 2) + go(k + 1)
    IN go(0)

XorNibble == [a \in 0..15 |-> [b \in 0..15 |-> XorBits(a, b, 4)]]

Xor8(a, b) == 16 * XorNibble[a \div 16][b \div 16] + XorNibble[a % 16][b % 16]

(***************************************************************************)
(* Result values.  Ok / Err are the two variants of Result<Vec<u8>, &str>; *)
(* Panic is a Rust panic (an index or a slice range out of bounds), which  *)
(* unwinds the calling task.                                               *)
(***************************************************************************)
Ok(m) == [tag |-> "Ok", message |-> m, error |-> ""]
Err(e) == [tag |-> "Err", message |-> <<>>, error |-> e]
Panic(e) == [tag |-> "Panic", message |-> <<>>, error |-> e]
NotCalled == [tag |-> "NotCalled", message |-> <<>>, error |-> ""]

(***************************************************************************)
(* parse_ws_frame, lines 113-160.                                          *)
(***************************************************************************)
fin_bit(frame_buf0) == frame_buf0[1] \div 128          \* frame_buf[0] >> 7

opcode_3bits(frame_buf0) == frame_buf0[1] % 8             \* mutant: & 0x7

opcode(frame_buf0) == frame_buf0[1] % 16               \* frame_buf[0] & 0xF

mask_bit_low(frame_buf0) == frame_buf0[2] % 2             \* mutant: & 1

mask_bit(frame_buf0) == frame_buf0[2] \div 128         \* frame_buf[1] >> 7

len_field_6bits(frame_buf0) == frame_buf0[2] % 64         \* mutant: & 0b0011_1111

len_field(frame_buf0) == frame_buf0[2] % 128           \* frame_buf[1] & 0b0111_1111

\* ((frame_buf[2] as u16) << 8) | (frame_buf[3] as u16)
extended_len(frame_buf0) == (frame_buf0[3] * 256) + frame_buf0[4]

payload_len(frame_buf0) ==
    IF len_field(frame_buf0) = Escape16 THEN extended_len(frame_buf0)
    ELSE len_field(frame_buf0)

mask_idx(frame_buf0) == IF len_field(frame_buf0) = Escape16 THEN 4 ELSE 2

\* mutant: masking_key[(i + 1) % 4]
unmask_shifted(payload, key, n) ==
    [i \in 1..n |-> Xor8(payload[i], key[(i % 4) + 1])]

\* for i in 0..payload_len { message.push(payload[i] ^ masking_key[i % 4]) }
unmask(payload, key, n) ==
    [i \in 1..n |-> Xor8(payload[i], key[((i - 1) % 4) + 1])]

\* mutant: every byte after the key is taken as payload
parse_body_to_end(frame_buf0) ==
    LET n == Len(frame_buf0)
        mi == mask_idx(frame_buf0)
    IN  IF n < mi + 4
        THEN Panic("slice index out of range")
        ELSE Ok(unmask(SubSeq(frame_buf0, mi + 5, n),
                       SubSeq(frame_buf0, mi + 1, mi + 4), n - (mi + 4)))

parse_body(frame_buf0) ==
    LET n == Len(frame_buf0)
        mi == mask_idx(frame_buf0)
        plen == payload_len(frame_buf0)
    IN  IF n < mi + 4
        THEN Panic("slice index out of range")      \* line 151 / 152
        ELSE IF plen > n - (mi + 4)
        THEN Panic("index out of bounds")           \* line 156
        ELSE Ok(unmask(SubSeq(frame_buf0, mi + 5, n),
                       SubSeq(frame_buf0, mi + 1, mi + 4), plen))

\* mutant: the opcode and MASK checks run before the FIN check
parse_ws_frame_opcode_first(frame_buf0) ==
    IF Len(frame_buf0) < 2 THEN Err(Truncated)
    ELSE IF opcode(frame_buf0) # 2 THEN Err(UnsupportedOpcode)
    ELSE IF mask_bit(frame_buf0) # 1 THEN Err(MaskRequired)
    ELSE IF fin_bit(frame_buf0) # 1 THEN Err(FragmentationUnsupported)
    ELSE IF len_field(frame_buf0) = Escape64 THEN Err(PayloadTooLarge)
    ELSE IF len_field(frame_buf0) = Escape16 /\ Len(frame_buf0) < 4 THEN Err(Truncated)
    ELSE parse_body(frame_buf0)

parse_ws_frame(frame_buf0) ==
    IF Len(frame_buf0) < 2 THEN Err(Truncated)
    ELSE IF fin_bit(frame_buf0) # 1 THEN Err(FragmentationUnsupported)
    ELSE IF opcode(frame_buf0) # 2 THEN Err(UnsupportedOpcode)
    ELSE IF mask_bit(frame_buf0) # 1 THEN Err(MaskRequired)
    ELSE IF len_field(frame_buf0) = Escape64 THEN Err(PayloadTooLarge)
    ELSE IF len_field(frame_buf0) = Escape16 /\ Len(frame_buf0) < 4 THEN Err(Truncated)
    ELSE parse_body(frame_buf0)

(***************************************************************************)
(* write_ws_frame, lines 162-180.  `as u8` keeps the low 8 bits.           *)
(***************************************************************************)
\* mutant: a length above 65535 is written as 65535
length_bytes_saturating(n) ==
    IF n <= InlineMax THEN <<n % 256>>
    ELSE IF n > MaxPayload THEN <<Escape16, 255, 255>>
    ELSE <<Escape16, (n \div 256) % 256, (n % 256) % 256>>

\* mutant: the extended length low byte first
length_bytes_le(n) ==
    IF n <= InlineMax THEN <<n % 256>>
    ELSE <<Escape16, (n % 256) % 256, (n \div 256) % 256>>

length_bytes(n) ==
    IF n <= InlineMax THEN <<n % 256>>
    ELSE <<Escape16, (n \div 256) % 256, (n % 256) % 256>>

\* mutant: the frame is sent masked, with an all-zero key
write_ws_frame_masked(message0) ==
    <<FinBinary>> \o [length_bytes(Len(message0)) EXCEPT ![1] = @ + 128]
        \o <<0, 0, 0, 0>> \o message0

write_ws_frame(message0) ==
    <<FinBinary>> \o length_bytes(Len(message0)) \o message0

(***************************************************************************)
(* accept_value, lines 104-111: Base64(SHA-1(key_value ++ GUID)).          *)
(* Sha1 is the digest of the sha1 crate (FIPS 180-4) and Base64Standard    *)
(* the BASE64_STANDARD engine of the base64 crate (RFC 4648, padded).  A   *)
(* 32-bit word is a pair <<high 16 bits, low 16 bits>>.                    *)
(***************************************************************************)
AndBits(a, b, w) ==
    LET RECURSIVE go(_)
        go(k) == IF k = w THEN 0
                 ELSE (2 ^ k) * (Bit(a, k) * Bit(b, k)) + go(k + 1)
    IN go(0)

AndNibble == [a \in 0..15 |-> [b \in 0..15 |-> AndBits(a, b, 4)]]

Nibbles16(T, x, y) ==
    (4096 * T[x \div 4096][y \div 4096])
    + (256 * T[(x \div 256) % 16][(y \div 256) % 16])
    + (16 * T[(x \div 16) % 16][(y \div 16) % 16])
    + T[x % 16][y % 16]

WXor(x, y) == <<Nibbles16(XorNibble, x[1], y[1]), Nibbles16(XorNibble, x[2], y[2])>>
WAnd(x, y) == <<Nibbles16(AndNibble, x[1], y[1]), Nibbles16(AndNibble, x[2], y[2])>>
WNot(x) == <<65535 - x[1], 65535 - x[2]>>
WOr(x, y) == WNot(WAnd(WNot(x), WNot(y)))
WAdd(x, y) ==
    LET lo == x[2] + y[2]
    IN  <<(x[1] + y[1] + (lo \div 65536)) % 65536, lo % 65536>>

RECURSIVE Rotl(_, _)
Rotl(x, n) ==
    IF n >= 16 THEN Rotl(<<x[2], x[1]>>, n - 16)
    ELSE LET cut == 2 ^ (16 - n)
         IN  <<((x[1] % cut) * (2 ^ n)) + (x[2] \div cut),
               ((x[2] % cut) * (2 ^ n)) + (x[1] \div cut)>>

Sha1H0 == <<<<26437, 8961>>, <<61389, 43913>>, <<39098, 56574>>, <<4146, 21622>>, <<50130, 57840>>>>

Sha1K(t) ==
    IF t < 20 THEN <<23170, 31129>> ELSE IF t < 40 THEN <<28377, 60321>>
    ELSE IF t < 60 THEN <<36635, 48348>> ELSE <<51810, 49622>>

Sha1F(t, b, c, d) ==
    IF t < 20 THEN WOr(WAnd(b, c), WAnd(WNot(b), d))
    ELSE IF t < 40 THEN WXor(WXor(b, c), d)
    ELSE IF t < 60 THEN WOr(WOr(WAnd(b, c), WAnd(b, d)), WAnd(c, d))
    ELSE WXor(WXor(b, c), d)

Sha1Pad(msg) ==
    LET n == Len(msg)
        zeros == (55 + (64 * (n + 9)) - n) % 64
        bits == 8 * n
    IN  msg \o <<128>> \o [i \in 1..zeros |-> 0]
            \o <<0, 0, 0, 0, (bits \div 16777216) % 256, (bits \div 65536) % 256,
                 (bits \div 256) % 256, bits % 256>>

\* the 16 big-endian words of block number blk (from 0) of the padded message
Sha1Block(padded, blk) ==
    [t \in 1..16 |->
        LET o == (64 * blk) + (4 * (t - 1))
        IN  <<(256 * padded[o + 1]) + padded[o + 2], (256 * padded[o + 3]) + padded[o + 4]>>]

RECURSIVE Sha1Schedule(_)
Sha1Schedule(w) ==
    LET n == Len(w)
    IN  IF n = 80 THEN w
        ELSE Sha1Schedule(Append(w,
                Rotl(WXor(WXor(w[n - 2], w[n - 7]), WXor(w[n - 13], w[n - 15])), 1)))

RECURSIVE Sha1Rounds(_, _, _)
Sha1Rounds(t, w, st) ==
    IF Len(st) = 5 /\ t = 80 THEN st
    ELSE LET temp == WAdd(WAdd(WAdd(Rotl(st[1], 5), Sha1F(t, st[2], st[3], st[4])),
                               WAdd(st[5], Sha1K(t))), w[t + 1])
         IN  Sha1Rounds(t + 1, w, <<temp, st[1], Rotl(st[2], 30), st[3], st[4]>>)

Sha1Compress(h, block) ==
    LET st == Sha1Rounds(0, Sha1Schedule(block), h)
    IN  [i \in 1..5 |-> WAdd(h[i], st[i])]

RECURSIVE Sha1Blocks(_, _, _)
Sha1Blocks(padded, blk, h) ==
    IF 64 * blk >= Len(padded) THEN h
    ELSE Sha1Blocks(padded, blk + 1, Sha1Compress(h, Sha1Block(padded, blk)))

\* the 20 digest bytes
Sha1(msg) ==
    LET h == Sha1Blocks(Sha1Pad(msg), 0, Sha1H0)
    IN  [i \in 1..20 |->
            LET half == h[((i - 1) \div 4) + 1][(((i - 1) % 4) \div 2) + 1]
            IN  IF (i % 2) = 1 THEN half \div 256 ELSE half % 256]

Base64Alphabet ==
    <<"A", "B", "C", "D", "E", "F", "G", "H", "I", "J", "K", "L", "M", "N", "O", "P",
      "Q", "R", "S", "T", "U", "V", "W", "X", "Y", "Z", "a", "b", "c", "d", "e", "f",
      "g", "h", "i", "j", "k", "l", "m", "n", "o", "p", "q", "r", "s", "t", "u", "v",
      "w", "x", "y", "z", "0", "1", "2", "3", "4", "5", "6", "7", "8", "9", "+", "/">>

Base64Group(bytes, i) ==
    LET n == Len(bytes)
        b1 == bytes[i]
        b2 == IF i + 1 <= n THEN bytes[i + 1] ELSE 0
        b3 == IF i + 2 <= n THEN bytes[i + 2] ELSE 0
    IN  << Base64Alphabet[(b1 \div 4) + 1],
           Base64Alphabet[((b1 % 4) * 16) + (b2 \div 16) + 1],
           IF i + 1 <= n THEN Base64Alphabet[((b2 % 16) * 4) + (b3 \div 64) + 1] ELSE "=",
           IF i + 2 <= n THEN Base64Alphabet[(b3 % 64) + 1] ELSE "=" >>

RECURSIVE Base64From(_, _)
Base64From(bytes, i) ==
    IF i > Len(bytes) THEN <<>>
    ELSE Base64Group(bytes, i) \o Base64From(bytes, i + 3)

Base64Standard(bytes) == Base64From(bytes, 1)

\* mutant: the constant with its hexadecimal digits in lower case
WebSocketGuidLower ==
    <<50, 53, 56, 101, 97, 102, 97, 53, 45, 101, 57, 49, 52, 45, 52, 55, 100, 97,
      45, 57, 53, 99, 97, 45, 99, 53, 97, 98, 48, 100, 99, 56, 53, 98, 49, 49>>

\* b"258EAFA5-E914-47DA-95CA-C5AB0DC85B11"
WebSocketGuid ==
    <<50, 53, 56, 69, 65, 70, 65, 53, 45, 69, 57, 49, 52, 45, 52, 55, 68, 65,
      45, 57, 53, 67, 65, 45, 67, 53, 65, 66, 48, 68, 67, 56, 53, 66, 49, 49>>

\* lines 105-110: update(key_value), update(GUID), finalize, encode
sha1_base64(key_value) == Base64Standard(Sha1(key_value \o WebSocketGuid))

\* b"dGhlIHNhbXBsZSBub25jZQ==" (tests::test_accept_value)
SampleKey ==
    <<100, 71, 104, 108, 73, 72, 78, 104, 98, 88, 66, 115, 90, 83, 66, 117,
      98, 50, 53, 106, 90, 81, 61, 61>>

\* b"AQIDBAUGBwgJCgsMDQ4PEA=="
OtherKey ==
    <<65, 81, 73, 68, 66, 65, 85, 71, 66, 119, 103, 74, 67, 103, 115, 77,
      68, 81, 52, 80, 69, 65, 61, 61>>

\* the digests of the keys the requests of the model carry, computed once
KnownAccepts == [k \in {SampleKey, OtherKey} |-> sha1_base64(k)]

\* lines 104-111; a key of the model takes its value from KnownAccepts
accept_value(key_value) ==
    IF key_value \in DOMAIN KnownAccepts THEN KnownAccepts[key_value]
    ELSE sha1_base64(key_value)

(***************************************************************************)
(* handshake_response, lines 71-102.  The request is what httparse (an     *)
(* external crate) reports for request_buf: the outcome of req.parse, the  *)
(* method (<<>> is None, <<m>> is Some(m)) and the headers it filled in,   *)
(* in order.  The unused entries of the 64-entry array stay EMPTY_HEADER,  *)
(* whose name "" matches nothing.                                          *)
(***************************************************************************)
BadResponse == [text |-> "HTTP/1.1 400 Bad Request\r\n\r\n", arg |-> <<>>]

\* format!("HTTP/1.1 101 ...Sec-WebSocket-Accept: {}\r\n\r\n", accept)
SwitchingResponse(accept) ==
    [text |-> "HTTP/1.1 101 Switching Protocols\r\nUpgrade: websocket\r\nConnection: Upgrade\r\nSec-WebSocket-Accept: {}\r\n\r\n",
     arg |-> accept]

NoResponse == [text |-> "", arg |-> <<>>]

Returned(response, bad_req) ==
    [tag |-> "Returned", response |-> response, bad_req |-> bad_req]

HandshakePanic == [tag |-> "Panic", response |-> NoResponse, bad_req |-> FALSE]

HandshakeNotCalled == [tag |-> "NotCalled", response |-> NoResponse, bad_req |-> FALSE]

method_is_get(req) == req.method = <<"GET">>

\* mutant: ASCII case-insensitive match of the header name
is_key_header_anycase(header) ==
    header.name \in {"Sec-WebSocket-Key", "sec-websocket-key", "SEC-WEBSOCKET-KEY"}

is_key_header(header) == header.name = "Sec-WebSocket-Key"

\* mutant: the last matching header instead of the first
key_header_last(headers) ==
    LET hits == {i \in 1..Len(headers) : is_key_header(headers[i])}
    IN  IF hits = {} THEN <<>>
        ELSE <<headers[CHOOSE i \in hits : \A j \in hits : j <= i]>>

\* headers.iter().find(..): <<>> is None, <<h>> is Some(h)
key_header(headers) ==
    LET hits == {i \in 1..Len(headers) : is_key_header(headers[i])}
    IN  IF hits = {} THEN <<>>
        ELSE <<headers[CHOOSE i \in hits : \A j \in hits : i <= j]>>

handshake_response(req) ==
    IF req.parse = "Error" THEN HandshakePanic      \* .expect(..), line 76
    ELSE IF ~method_is_get(req) THEN Returned(BadResponse, TRUE)
    ELSE LET found == key_header(req.headers)
         IN  IF found = <<>> THEN Returned(BadResponse, TRUE)
             ELSE Returned(SwitchingResponse(accept_value(found[1].value)), FALSE)

(***************************************************************************)
(* The handshake's inputs.                                                 *)
(***************************************************************************)
HeaderSamples ==
    [name : {"Sec-WebSocket-Key", "sec-websocket-key", "Host"},
     value : {SampleKey, OtherKey}]

HeaderLists == UNION {[1..n -> HeaderSamples] : n \in 0..MaxHeaders}

Requests ==
    [parse : {"Complete", "Partial", "Error"},
     method : {<<>>, <<"GET">>, <<"POST">>, <<"get">>},
     headers : HeaderLists]

NoRequest == [parse |-> "Error", method |-> <<>>, headers |-> <<>>]

(***************************************************************************)
(* The codec's inputs.  A client frame is built around a payload P and a   *)
(* key K the way tests::parse_short builds its buffer (lines 194-215); a   *)
(* tamper then alters it: another byte 0, another MASK bit, the length     *)
(* field forced to 127, bytes cut from its end, only its first bytes kept, *)
(* or bytes appended after the payload.                                    *)
(***************************************************************************)
mask_payload(P, K) == [i \in 1..Len(P) |-> Xor8(P[i], K[((i - 1) % 4) + 1])]

client_length_bytes(n) ==
    IF n <= InlineMax THEN <<128 + n>>
    ELSE <<128 + Escape16, n \div 256, n % 256>>

ClientFrame(P, K) ==
    <<FinBinary>> \o client_length_bytes(Len(P)) \o K \o mask_payload(P, K)

Pattern(len, seed) == [i \in 1..len |-> (seed + ((i - 1) * 37)) % 256]

SmallBytes == {0, 255}
SmallPayloads == UNION {[1..n -> SmallBytes] : n \in 0..MaxSmallLen}
Hello == <<72, 101, 108, 108, 111>>
BoundaryPayloads == {Pattern(InlineMax, 90), Pattern(Escape16, 90), Pattern(300, 90)}
BigPayload == Pattern(MaxPayload, 90)
\* a message longer than a u16 can count
OverlongPayload == Pattern(MaxPayload + 301, 90)
TestKey == <<18, 52, 171, 205>>        \* 0x12 0x34 0xab 0xcd
Keys == {TestKey, <<255, 0, 1, 128>>}

\* byte 0: FIN | RSV1..3 | opcode
Byte0Samples == {130, 2, 129, 1, 136, 137, 138, 128, 242, 114}

Shapes ==
    [kind : {"cut", "keep"}, k : 0..MaxTrim] \cup [kind : {"extra"}, k : 1..MaxExtra]

Tampers == [b0 : Byte0Samples, mask : {0, 1}, len127 : BOOLEAN, shape : Shapes]

NoTamper == [b0 |-> FinBinary, mask |-> 1, len127 |-> FALSE,
             shape |-> [kind |-> "cut", k |-> 0]]

Min(a, b) == IF a < b THEN a ELSE b
Max(a, b) == IF a < b THEN b ELSE a

Reshape(f, sh) ==
    CASE sh.kind = "cut" -> SubSeq(f, 1, Max(0, Len(f) - sh.k))
      [] sh.kind = "keep" -> SubSeq(f, 1, Min(Len(f), sh.k))
      [] sh.kind = "extra" -> f \o Pattern(sh.k, 7)

TamperedFrame(P, K, t) ==
    LET f == ClientFrame(P, K)
        len7 == IF t.len127 THEN Escape64 ELSE f[2] % 128
        g == [f EXCEPT ![1] = t.b0, ![2] = (128 * t.mask) + len7]
    IN  Reshape(g, t.shape)

NoFrame == <<>>

(***************************************************************************)
(* The codec harness: Init draws a case, the actions call the functions.   *)
(***************************************************************************)
InitDecode ==
    /\ test = "decode"
    /\ \/ /\ message \in SmallPayloads \cup {Hello} \cup BoundaryPayloads
          /\ masking_key \in Keys
          /\ tamper \in Tampers
       \/ /\ message = BigPayload
          /\ masking_key = TestKey
          /\ tamper = NoTamper
    /\ frame_buf = TamperedFrame(message, masking_key, tamper)
    /\ parsed = NotCalled
    /\ frame = NoFrame
    /\ request = NoRequest
    /\ handshake = HandshakeNotCalled
    /\ conn = <<>>
    /\ listener = "accepting"

InitEncode ==
    /\ test = "encode"
    /\ message \in SmallPayloads \cup {Hello} \cup BoundaryPayloads
                    \cup {BigPayload, OverlongPayload}
    /\ masking_key = TestKey
    /\ tamper = NoTamper
    /\ frame_buf = NoFrame
    /\ parsed = NotCalled
    /\ frame = NoFrame
    /\ request = NoRequest
    /\ handshake = HandshakeNotCalled
    /\ conn = <<>>
    /\ listener = "accepting"

InitCodec == InitDecode \/ InitEncode

Decode ==
    /\ test = "decode"
    /\ parsed = NotCalled
    /\ parsed' = parse_ws_frame(frame_buf)
    /\ UNCHANGED <<test, message, masking_key, tamper, frame_buf, frame,
                   request, handshake, conn, listener>>

Encode ==
    /\ test = "encode"
    /\ frame = NoFrame
    /\ frame' = write_ws_frame(message)
    /\ UNCHANGED <<test, message, masking_key, tamper, frame_buf, parsed,
                   request, handshake, conn, listener>>

\* the encoder's frame given to the decoder
Redecode ==
    /\ test = "encode"
    /\ frame # NoFrame
    /\ parsed = NotCalled
    /\ parsed' = parse_ws_frame(frame)
    /\ UNCHANGED <<test, message, masking_key, tamper, frame_buf, frame,
                   request, handshake, conn, listener>>

NextCodec == Decode \/ Encode \/ Redecode

SpecCodec == InitCodec /\ [][NextCodec]_vars

(***************************************************************************)
(* The handshake harness: Init draws a request, Respond calls the engine.  *)
(***************************************************************************)
InitHandshake ==
    /\ request \in Requests
    /\ handshake = HandshakeNotCalled
    /\ conn = <<>>
    /\ listener = "accepting"
    /\ test = "handshake"
    /\ message = <<>>
    /\ masking_key = TestKey
    /\ tamper = NoTamper
    /\ frame_buf = NoFrame
    /\ parsed = NotCalled
    /\ frame = NoFrame

Respond ==
    /\ test = "handshake"
    /\ handshake = HandshakeNotCalled
    /\ handshake' = handshake_response(request)
    /\ UNCHANGED <<codecVars, request, conn, listener>>

NextHandshake == Respond

SpecHandshake == InitHandshake /\ [][NextHandshake]_vars

(***************************************************************************)
(* handle_client, lines 25-69: one task per connection.  conn[c] is the    *)
(* task of connection c:                                                   *)
(*   pc             "read" (at socket.read, line 30), "handshake" (line    *)
(*                  40), "frame" (line 56), "returned", "panicked"         *)
(*   done_handshake the local of line 27                                   *)
(*   buf            buf[0..n] of the last read                             *)
(*   reads          history: one entry per read that returned              *)
(*   writes         history: the argument of every write_all call          *)
(* What a read returns is a record: bytes, the n bytes as the frame        *)
(* decoder sees them (for an HTTP request, its first bytes), and http, the *)
(* same bytes as httparse reports them.                                    *)
(***************************************************************************)
BufSize == 1024

NoData == [bytes |-> <<>>, http |-> NoRequest]

NewClient ==
    [pc |-> "read", done_handshake |-> FALSE, buf |-> NoData,
     reads |-> <<>>, writes |-> <<>>]

HttpWrite(response, ok) ==
    [kind |-> "http", http |-> response, frame |-> <<>>, ok |-> ok]

FrameWrite(bytes, ok) ==
    [kind |-> "frame", http |-> NoResponse, frame |-> bytes, ok |-> ok]

\* one read in the history of a task; bytes is buf[0..n]
ReadEntry(n, bytes, to, outcome, error, wrote) ==
    [n |-> n, bytes |-> bytes, to |-> to, outcome |-> outcome, error |-> error,
     wrote |-> wrote]

\* the last entry of reads, completed
Settle(reads, outcome, error, wrote) ==
    [reads EXCEPT ![Len(reads)] =
        ReadEntry(@.n, @.bytes, @.to, outcome, error, wrote)]

\* mutant: the flag is read the wrong way round
dispatch_inverted(done_handshake) ==
    IF done_handshake THEN "handshake" ELSE "frame"

\* if !done_handshake { .. } else the frame branch, line 39
dispatch(done_handshake) ==
    IF ~done_handshake THEN "handshake" ELSE "frame"

\* mutant: a rejected handshake does not return
after_handshake_continue(bad_req) == "read"

\* if bad_req { return; } .. continue, lines 47-52
after_handshake(bad_req) == IF bad_req THEN "returned" ELSE "read"

\* mutant: a decode error is skipped and the loop goes on
after_frame_lenient(result) ==
    CASE result.tag = "Err" -> "read"
      [] result.tag = "Panic" -> "panicked"
      [] result.tag = "Ok" -> "read"

\* match parse_ws_frame(..) { Err(_) => return, Ok(message) => .. }, lines 56-67
after_frame(result) ==
    CASE result.tag = "Err" -> "returned"
      [] result.tag = "Panic" -> "panicked"
      [] result.tag = "Ok" -> "read"

\* lines 30-37, n = 0
read_eof(cl) ==
    [cl EXCEPT !.pc = "returned",
               !.reads = Append(@, ReadEntry(0, <<>>, "none", "eof", "", 0))]

\* mutant: the new bytes are appended to what the buffer held
read_data_appending(cl, data) ==
    [cl EXCEPT !.pc = dispatch(cl.done_handshake),
               !.buf = [data EXCEPT !.bytes = cl.buf.bytes \o @],
               !.reads = Append(@, ReadEntry(Len(data.bytes), data.bytes,
                                   dispatch(cl.done_handshake), "pending", "", 0))]

\* lines 30-39, n > 0
read_data(cl, data) ==
    [cl EXCEPT !.pc = dispatch(cl.done_handshake),
               !.buf = data,
               !.reads = Append(@, ReadEntry(Len(data.bytes), data.bytes,
                                   dispatch(cl.done_handshake), "pending", "", 0))]

\* .expect("failed to read data from socket"), line 33
read_failed(cl) == [cl EXCEPT !.pc = "panicked"]

\* lines 40-53; write_ok: whether write_all returned Ok
handshake_step(cl, write_ok) ==
    LET r == handshake_response(cl.buf.http)
    IN  IF r.tag = "Panic"
        THEN [cl EXCEPT !.pc = "panicked",
                        !.reads = Settle(@, "panic", "", 0)]
        ELSE [cl EXCEPT
                !.writes = Append(@, HttpWrite(r.response, write_ok)),
                !.reads = Settle(@, IF r.bad_req THEN "rejected" ELSE "accepted", "", 1),
                !.done_handshake = IF write_ok /\ ~r.bad_req THEN TRUE ELSE @,
                !.pc = IF write_ok THEN after_handshake(r.bad_req) ELSE "panicked"]

\* mutant: a decoded message is dropped without an echo
frame_step_silent(cl, write_ok) ==
    LET r == parse_ws_frame(cl.buf.bytes)
    IN  IF r.tag = "Ok"
        THEN [cl EXCEPT !.reads = Settle(@, "echoed", "", 0),
                        !.pc = after_frame(r)]
        ELSE [cl EXCEPT
                !.reads = Settle(@, IF r.tag = "Err" THEN "error" ELSE "panic", r.error, 0),
                !.pc = after_frame(r)]

\* lines 56-67
frame_step(cl, write_ok) ==
    LET r == parse_ws_frame(cl.buf.bytes)
    IN  IF r.tag = "Ok"
        THEN [cl EXCEPT
                !.writes = Append(@, FrameWrite(write_ws_frame(r.message), write_ok)),
                !.reads = Settle(@, "echoed", "", 1),
                !.pc = IF write_ok THEN after_frame(r) ELSE "panicked"]
        ELSE [cl EXCEPT
                !.reads = Settle(@, IF r.tag = "Err" THEN "error" ELSE "panic", r.error, 0),
                !.pc = after_frame(r)]

(***************************************************************************)
(* What the peer of a connection sends.                                    *)
(***************************************************************************)
\* the first bytes of the request, as the frame decoder would see them
RequestBytes(req) ==
    CASE req.method = <<"GET">> -> <<71, 69, 84, 32, 47>>
      [] req.method = <<"POST">> -> <<80, 79, 83, 84, 32>>
      [] OTHER -> <<71>>

HttpData(req) == [bytes |-> RequestBytes(req), http |-> req]

\* a WebSocket frame is no HTTP request: httparse fails on its first byte
FrameData(bytes) == [bytes |-> bytes, http |-> NoRequest]

Header(name, value) == [name |-> name, value |-> value]

Request(parse, method, headers) ==
    [parse |-> parse, method |-> method, headers |-> headers]

ConnRequests ==
    { Request("Complete", <<"GET">>, <<Header("Host", OtherKey), Header("Sec-WebSocket-Key", SampleKey)>>),
      Request("Complete", <<"GET">>, <<Header("Host", OtherKey)>>),
      Request("Complete", <<"GET">>, <<Header("sec-websocket-key", SampleKey)>>),
      Request("Complete", <<"POST">>, <<Header("Sec-WebSocket-Key", SampleKey)>>),
      Request("Partial", <<>>, <<>>) }

ConnFrames ==
    { ClientFrame(Hello, TestKey),
      ClientFrame(<<>>, TestKey),
      ClientFrame(Pattern(Escape16, 90), TestKey),
      TamperedFrame(Hello, TestKey, [NoTamper EXCEPT !.shape = [kind |-> "cut", k |-> 1]]),
      TamperedFrame(Hello, TestKey, [NoTamper EXCEPT !.mask = 0]),
      TamperedFrame(Hello, TestKey, [NoTamper EXCEPT !.b0 = 129]),
      TamperedFrame(Hello, TestKey, [NoTamper EXCEPT !.b0 = 2]),
      TamperedFrame(Hello, TestKey, [NoTamper EXCEPT !.len127 = TRUE]),
      <<130>>,
      \* a frame that fills the buffer, and the first BufSize bytes of a longer one
      ClientFrame(Pattern(BufSize - 8, 90), TestKey),
      SubSeq(ClientFrame(Pattern(BufSize - 7, 90), TestKey), 1, BufSize),
      \* a frame that arrives in two reads: header and key, then the payload
      SubSeq(ClientFrame(Hello, TestKey), 1, 6),
      SubSeq(ClientFrame(Hello, TestKey), 7, 11),
      \* two frames in one read
      ClientFrame(Hello, TestKey) \o ClientFrame(<<>>, TestKey) }

ConnData == {HttpData(r) : r \in ConnRequests} \cup {FrameData(f) : f \in ConnFrames}

ServerData ==
    { HttpData(Request("Complete", <<"GET">>, <<Header("Sec-WebSocket-Key", SampleKey)>>)),
      HttpData(Request("Complete", <<"POST">>, <<Header("Sec-WebSocket-Key", SampleKey)>>)),
      FrameData(ClientFrame(Hello, TestKey)),
      FrameData(TamperedFrame(Hello, TestKey, [NoTamper EXCEPT !.mask = 0])),
      FrameData(TamperedFrame(Hello, TestKey,
                              [NoTamper EXCEPT !.shape = [kind |-> "cut", k |-> 1]])) }

(***************************************************************************)
(* The actions of connection c.                                            *)
(***************************************************************************)
\* mutant: a panic of one task takes the whole process down (panic = "abort")
after_task_panic_abort(listener0) == "aborted"

\* tokio::spawn, line 21: a panic unwinds the spawned task only; main goes on
after_task_panic(listener0) == listener0

\* the listener after a step of a connection that leaves its task as cl
listener_after(cl) ==
    IF cl.pc = "panicked" THEN after_task_panic(listener) ELSE listener

\* the data a peer may send: fewer kinds when several connections run
PeerData == IF test = "server" THEN ServerData ELSE ConnData

\* whether write_all returns Ok
WriteOutcomes == BOOLEAN

RECURSIVE TotalReads(_)
TotalReads(conns) ==
    IF conns = <<>> THEN 0
    ELSE Len(Head(conns).reads) + TotalReads(Tail(conns))

\* the reads the model follows: MaxReads of them, over all the connections
MayRead(c) == conn[c].pc = "read" /\ TotalReads(conn) < MaxReads

ReadEof(c) ==
    /\ listener = "accepting"
    /\ MayRead(c)
    /\ conn' = [conn EXCEPT ![c] = read_eof(@)]
    /\ UNCHANGED <<codecVars, request, handshake, listener>>

ReadData(c) ==
    /\ listener = "accepting"
    /\ MayRead(c)
    /\ \E data \in PeerData :
          /\ Len(data.bytes) <= BufSize
          /\ conn' = [conn EXCEPT ![c] = read_data(@, data)]
    /\ UNCHANGED <<codecVars, request, handshake, listener>>

ReadFailed(c) ==
    /\ listener = "accepting"
    /\ MayRead(c)
    /\ LET cl == read_failed(conn[c])
       IN  /\ conn' = [conn EXCEPT ![c] = cl]
           /\ listener' = listener_after(cl)
    /\ UNCHANGED <<codecVars, request, handshake>>

Handshake(c) ==
    /\ listener = "accepting"
    /\ conn[c].pc = "handshake"
    /\ \E write_ok \in WriteOutcomes :
          LET cl == handshake_step(conn[c], write_ok)
          IN  /\ conn' = [conn EXCEPT ![c] = cl]
              /\ listener' = listener_after(cl)
    /\ UNCHANGED <<codecVars, request, handshake>>

Frame(c) ==
    /\ listener = "accepting"
    /\ conn[c].pc = "frame"
    /\ \E write_ok \in WriteOutcomes :
          LET cl == frame_step(conn[c], write_ok)
          IN  /\ conn' = [conn EXCEPT ![c] = cl]
              /\ listener' = listener_after(cl)
    /\ UNCHANGED <<codecVars, request, handshake>>

handle_client(c) ==
    ReadEof(c) \/ ReadData(c) \/ ReadFailed(c) \/ Handshake(c) \/ Frame(c)

InitConn ==
    /\ conn = <<NewClient>>
    /\ listener = "accepting"
    /\ request = NoRequest
    /\ handshake = HandshakeNotCalled
    /\ test = "connection"
    /\ message = <<>>
    /\ masking_key = TestKey
    /\ tamper = NoTamper
    /\ frame_buf = NoFrame
    /\ parsed = NotCalled
    /\ frame = NoFrame

NextConn ==
    \/ \E c \in DOMAIN conn : ReadEof(c)
    \/ \E c \in DOMAIN conn : ReadData(c)
    \/ \E c \in DOMAIN conn : ReadFailed(c)
    \/ \E c \in DOMAIN conn : Handshake(c)
    \/ \E c \in DOMAIN conn : Frame(c)

SpecConn == InitConn /\ [][NextConn]_vars

(***************************************************************************)
(* main, lines 11-23: the accept loop spawns one handle_client task per    *)
(* connection.  An Err of accept leaves main through `?`: the process      *)
(* ends, and its tasks with it.                                            *)
(***************************************************************************)
Accept ==
    /\ listener = "accepting"
    /\ Len(conn) < MaxConns
    /\ conn' = Append(conn, NewClient)
    /\ UNCHANGED <<codecVars, request, handshake, listener>>

AcceptFailed ==
    /\ listener = "accepting"
    /\ listener' = "failed"
    /\ UNCHANGED <<codecVars, request, handshake, conn>>

InitServer ==
    /\ conn = <<>>
    /\ listener = "accepting"
    /\ request = NoRequest
    /\ handshake = HandshakeNotCalled
    /\ test = "server"
    /\ message = <<>>
    /\ masking_key = TestKey
    /\ tamper = NoTamper
    /\ frame_buf = NoFrame
    /\ parsed = NotCalled
    /\ frame = NoFrame

NextServer ==
    \/ Accept
    \/ AcceptFailed
    \/ \E c \in DOMAIN conn : ReadEof(c)
    \/ \E c \in DOMAIN conn : ReadData(c)
    \/ \E c \in DOMAIN conn : ReadFailed(c)
    \/ \E c \in DOMAIN conn : Handshake(c)
    \/ \E c \in DOMAIN conn : Frame(c)

SpecServer == InitServer /\ [][NextServer]_vars

(***************************************************************************)
(* What a decoded buffer looks like, read off the buffer itself.           *)
(***************************************************************************)
Decoded == test = "decode" /\ parsed # NotCalled

HeaderPasses ==
    /\ Len(frame_buf) >= 2
    /\ frame_buf[1] \div 128 = 1
    /\ frame_buf[1] % 16 = 2
    /\ frame_buf[2] \div 128 = 1
    /\ frame_buf[2] % 128 # 127
    /\ (frame_buf[2] % 128 = 126 => Len(frame_buf) >= 4)

\* mask_key_offset + 4 + real_length, for a buffer whose header passes
NeededBytes ==
    IF frame_buf[2] % 128 = 126
    THEN 4 + 4 + ((256 * frame_buf[3]) + frame_buf[4])
    ELSE 2 + 4 + (frame_buf[2] % 128)

(***************************************************************************)
(* C1.  Frame round-trip: parse_ws_frame applied to the client frame built *)
(* around a payload P (0 <= len(P) <= 65535) and a key K returns Ok with   *)
(* exactly P.                                                              *)
(***************************************************************************)
FrameRoundTrip ==
    (Decoded /\ frame_buf = ClientFrame(message, masking_key))
        => parsed = Ok(message)

FrameRoundTripWitness ==
    /\ Decoded
    /\ Len(message) = 300
    /\ frame_buf = ClientFrame(message, masking_key)
    /\ parsed.tag = "Ok"
    /\ parsed.message = message

(***************************************************************************)
(* C2.  A buffer whose header passes every check but which holds fewer     *)
(* than mask_key_offset + 4 + real_length bytes is answered with the       *)
(* Truncated error (and not with a panic).                                 *)
(***************************************************************************)
TruncatedSurfaced ==
    (Decoded /\ HeaderPasses /\ Len(frame_buf) < NeededBytes)
        => parsed = Err(Truncated)

(***************************************************************************)
(* C3.  Masking requirement: a buffer with FIN=1, opcode=2 and MASK bit 0  *)
(* is answered with MaskRequired whatever follows, and no buffer whose     *)
(* MASK bit is 0 is ever decoded to Ok.                                    *)
(***************************************************************************)
MaskBitZeroRejected ==
    (Decoded /\ Len(frame_buf) >= 2 /\ frame_buf[2] \div 128 = 0)
        => /\ parsed.tag # "Ok"
           /\ (frame_buf[1] \div 128 = 1 /\ frame_buf[1] % 16 = 2)
                  => parsed = Err(MaskRequired)

MaskBitZeroWitness ==
    /\ Decoded
    /\ tamper = [NoTamper EXCEPT !.mask = 0]
    /\ Len(message) = Escape16
    /\ frame_buf[2] = Escape16
    /\ parsed = Err(MaskRequired)

(***************************************************************************)
(* C4.  Non-binary / fragmented rejection.                                 *)
(* As stated: for every buffer of at least 2 bytes, FIN=0 gives            *)
(* FragmentationUnsupported and an opcode other than 2 gives               *)
(* UnsupportedOpcode.                                                      *)
(***************************************************************************)
FinAndOpcodeRejectedAsStated ==
    (Decoded /\ Len(frame_buf) >= 2)
        => /\ (frame_buf[1] \div 128 = 0) => parsed = Err(FragmentationUnsupported)
           /\ (frame_buf[1] % 16 # 2) => parsed = Err(UnsupportedOpcode)

(* C4 as amended: FIN=0 always gives FragmentationUnsupported; an opcode   *)
(* other than 2 gives UnsupportedOpcode when FIN=1.                        *)
FinThenOpcodeRejected ==
    (Decoded /\ Len(frame_buf) >= 2)
        => /\ (frame_buf[1] \div 128 = 0) => parsed = Err(FragmentationUnsupported)
           /\ (frame_buf[1] \div 128 = 1 /\ frame_buf[1] % 16 # 2)
                  => parsed = Err(UnsupportedOpcode)

FinThenOpcodeWitness ==
    /\ Decoded
    /\ tamper = [NoTamper EXCEPT !.b0 = 138]
    /\ message = Hello
    /\ frame_buf[1] \div 128 = 1
    /\ frame_buf[1] % 16 = 10
    /\ parsed = Err(UnsupportedOpcode)

(***************************************************************************)
(* C5.  The 127 length field.                                              *)
(* As stated: every buffer whose byte 1 has its low 7 bits equal to 127    *)
(* fails with PayloadTooLarge.                                             *)
(***************************************************************************)
Length127RejectedAsStated ==
    (Decoded /\ Len(frame_buf) >= 2 /\ frame_buf[2] % 128 = 127)
        => parsed = Err(PayloadTooLarge)

(* C5 as amended: such a buffer is never decoded to a payload, and it      *)
(* fails with PayloadTooLarge when FIN=1, opcode=2 and MASK=1, whatever    *)
(* bytes follow the header (even none).                                    *)
Length127Rejected ==
    (Decoded /\ Len(frame_buf) >= 2 /\ frame_buf[2] % 128 = 127)
        => /\ parsed.tag = "Err"
           /\ (frame_buf[1] \div 128 = 1 /\ frame_buf[1] % 16 = 2
                  /\ frame_buf[2] \div 128 = 1)
                  => parsed = Err(PayloadTooLarge)

Length127Witness ==
    /\ Decoded
    /\ tamper = [NoTamper EXCEPT !.len127 = TRUE, !.shape = [kind |-> "keep", k |-> 2]]
    /\ frame_buf = <<130, 255>>
    /\ parsed = Err(PayloadTooLarge)

(***************************************************************************)
(* C6.  Encoder wire format: for len(P) <= 65535, write_ws_frame(P) is the *)
(* byte 0x82, the length (one byte when len <= 125, else 126 and the       *)
(* big-endian 16-bit length), then P unchanged.                            *)
(***************************************************************************)
EncoderWireFormat ==
    (test = "encode" /\ frame # NoFrame /\ Len(message) <= MaxPayload)
        => LET n == Len(message) IN
           /\ frame[1] = 130
           /\ (n <= 125) =>
                 /\ Len(frame) = n + 2
                 /\ frame[2] = n
                 /\ \A i \in 1..n : frame[2 + i] = message[i]
           /\ (n > 125) =>
                 /\ Len(frame) = n + 4
                 /\ frame[2] = 126
                 /\ (256 * frame[3]) + frame[4] = n
                 /\ frame[3] < 256 /\ frame[4] < 256
                 /\ \A i \in 1..n : frame[4 + i] = message[i]

EncoderWireFormatWitness ==
    /\ test = "encode"
    /\ Len(message) = 300
    /\ frame # NoFrame
    /\ frame[2] = 126 /\ frame[3] = 1 /\ frame[4] = 44
    /\ Len(frame) = 304

(***************************************************************************)
(* C7.  Handshake decision: a parsed request whose method is not GET, or   *)
(* which has no header named Sec-WebSocket-Key, gets the literal 400       *)
(* response with the bad-request flag set (the method is checked first);   *)
(* a GET request with that header gets the 101 response, flag clear, whose *)
(* Sec-WebSocket-Accept value is derived from the value of the first such  *)
(* header.                                                                 *)
(***************************************************************************)
SampleAccept ==
    << "s", "3", "p", "P", "L", "M", "B", "i", "T", "x", "a", "Q", "9", "k",
       "Y", "G", "z", "z", "h", "Z", "R", "b", "K", "+", "x", "O", "o", "=" >>

KeyPositions ==
    {i \in 1..Len(request.headers) : request.headers[i].name = "Sec-WebSocket-Key"}

FirstKeyValue ==
    request.headers[CHOOSE i \in KeyPositions : \A j \in KeyPositions : i <= j].value

HandshakeDecision ==
    (handshake # HandshakeNotCalled /\ request.parse # "Error")
        => IF request.method # <<"GET">> \/ KeyPositions = {}
           THEN /\ handshake.tag = "Returned"
                /\ handshake.bad_req
                /\ handshake.response.text = "HTTP/1.1 400 Bad Request\r\n\r\n"
                /\ handshake.response.arg = <<>>
           ELSE /\ handshake.tag = "Returned"
                /\ ~handshake.bad_req
                /\ handshake.response.text =
                     "HTTP/1.1 101 Switching Protocols\r\nUpgrade: websocket\r\nConnection: Upgrade\r\nSec-WebSocket-Accept: {}\r\n\r\n"
                /\ handshake.response.arg = accept_value(FirstKeyValue)
                /\ (FirstKeyValue = SampleKey) => handshake.response.arg = SampleAccept

HandshakeDecisionWitness ==
    /\ request = Request("Complete", <<"GET">>,
                         << Header("Sec-WebSocket-Key", SampleKey),
                            Header("Sec-WebSocket-Key", OtherKey) >>)
    /\ handshake = Returned(SwitchingResponse(SampleAccept), FALSE)

(***************************************************************************)
(* C8.  Ordering within one connection: the first non-empty read goes to   *)
(* the handshake engine; no read goes to the frame decoder before a        *)
(* handshake was accepted; after that every non-empty read goes to the     *)
(* frame decoder; at most one HTTP response is written per connection.     *)
(***************************************************************************)
HttpWrites(cl) == {k \in 1..Len(cl.writes) : cl.writes[k].kind = "http"}

HandshakeBeforeFrames ==
    \A c \in DOMAIN conn :
        LET R == conn[c].reads IN
        /\ (Len(R) >= 1 /\ R[1].n > 0) => R[1].to = "handshake"
        /\ \A i \in 1..Len(R) :
              R[i].to = "frame"
                  => \E j \in 1..(i - 1) :
                        R[j].to = "handshake" /\ R[j].outcome = "accepted"
        /\ \A j \in 1..Len(R) : \A i \in (j + 1)..Len(R) :
              (R[j].outcome = "accepted" /\ R[i].n > 0) => R[i].to = "frame"
        /\ Cardinality(HttpWrites(conn[c])) <= 1

HandshakeBeforeFramesWitness ==
    \E c \in DOMAIN conn :
        LET R == conn[c].reads IN
        /\ Len(R) = 3
        /\ R[1].to = "handshake" /\ R[1].outcome = "accepted"
        /\ R[2].to = "frame" /\ R[2].outcome = "echoed"
        /\ R[3].to = "frame" /\ R[3].outcome = "echoed"
        /\ Len(conn[c].writes) = 3
        /\ HttpWrites(conn[c]) = {1}

(***************************************************************************)
(* C9.  A rejected handshake closes the connection: handle_client calls    *)
(* write_all once, with the 400 response, and the task ends; no further    *)
(* read is processed and nothing is given to the frame decoder.            *)
(***************************************************************************)
RejectedHandshakeCloses ==
    \A c \in DOMAIN conn :
        LET R == conn[c].reads
            W == conn[c].writes
        IN  \A i \in 1..Len(R) :
              R[i].outcome = "rejected"
                  => /\ i = Len(R)
                     /\ conn[c].pc \in {"returned", "panicked"}
                     /\ W[Len(W)].ok => conn[c].pc = "returned"
                     /\ Len(W) = 1
                     /\ W[1].kind = "http"
                     /\ W[1].http = BadResponse
                     /\ \A k \in 1..Len(R) : R[k].to # "frame"
                     /\ ~conn[c].done_handshake

RejectedHandshakeWitness ==
    \E c \in DOMAIN conn :
        /\ conn[c].pc = "returned"
        /\ conn[c].buf.http.method = <<"POST">>
        /\ Len(conn[c].reads) = 1
        /\ conn[c].reads[1].outcome = "rejected"
        /\ conn[c].writes = <<HttpWrite(BadResponse, TRUE)>>

(***************************************************************************)
(* C10.  A zero-length read or a failed decode closes the connection: the  *)
(* task ends, write_all is not called for that read, and no later read is  *)
(* processed.                                                              *)
(***************************************************************************)
WritingReads(cl) ==
    {k \in 1..Len(cl.reads) : cl.reads[k].outcome \in {"accepted", "rejected", "echoed"}}

EofOrDecodeErrorCloses ==
    \A c \in DOMAIN conn :
        LET R == conn[c].reads IN
        \A i \in 1..Len(R) :
          /\ R[i].outcome \in {"eof", "error"}
                => /\ i = Len(R)
                   /\ conn[c].pc = "returned"
                   /\ Len(conn[c].writes) = Cardinality(WritingReads(conn[c]))
                   /\ Len(conn[c].writes) <= i - 1
          /\ (R[i].to = "frame" /\ R[i].outcome = "panic")
                => /\ i = Len(R)
                   /\ conn[c].pc = "panicked"
                   /\ Len(conn[c].writes) = Cardinality(WritingReads(conn[c]))
          /\ R[i].outcome = "error"
                => R[i].error \in {Truncated, FragmentationUnsupported,
                                   UnsupportedOpcode, MaskRequired, PayloadTooLarge}

EofOrDecodeErrorWitness ==
    \E c \in DOMAIN conn :
        LET R == conn[c].reads IN
        /\ Len(R) = 3
        /\ R[1].outcome = "accepted"
        /\ R[2].outcome = "echoed"
        /\ R[3].outcome = "error" /\ R[3].error = MaskRequired
        /\ conn[c].pc = "returned"
        /\ Len(conn[c].writes) = 2

(***************************************************************************)
(* C11.  Connection isolation: a step of one connection's task, an error   *)
(* included (a malformed HTTP request, a rejected handshake, a malformed   *)
(* or a cut-short frame, a zero-length read), leaves every other           *)
(* connection's task as it was (its flag, its buffer, what it decoded and  *)
(* what it wrote), leaves the listener accepting and ends no process; a    *)
(* newly accepted connection starts from a fresh task and changes no       *)
(* other.                                                                  *)
(***************************************************************************)
ConnectionIsolation ==
    [][ /\ \A c \in DOMAIN conn :
              conn'[c] # conn[c]
                  => /\ \A d \in DOMAIN conn \ {c} : conn'[d] = conn[d]
                     /\ DOMAIN conn' = DOMAIN conn
                     /\ listener = "accepting"
                     /\ listener' = "accepting"
        /\ DOMAIN conn' # DOMAIN conn
              => /\ Len(conn') = Len(conn) + 1
                 /\ \A d \in DOMAIN conn : conn'[d] = conn[d]
                 /\ conn'[Len(conn')] = NewClient
                 /\ listener' = "accepting" ]_vars

ConnectionIsolationWitness ==
    /\ test = "server"
    /\ listener = "accepting"
    /\ Len(conn) = 2
    /\ conn[1].pc = "panicked"
    /\ Len(conn[1].reads) = 1
    /\ conn[1].reads[1].to = "handshake" /\ conn[1].reads[1].outcome = "panic"
    /\ conn[2].pc = "read"
    /\ conn[2].done_handshake
    /\ Len(conn[2].reads) = 2
    /\ conn[2].reads[2].outcome = "echoed"
    /\ Len(conn[2].writes) = 2
    /\ conn[2].writes[2] = FrameWrite(write_ws_frame(Hello), TRUE)

(***************************************************************************)
(* C12.  accept_value(key) is the padded standard Base64 encoding of the   *)
(* 20-byte SHA-1 digest of the key bytes followed by the ASCII constant    *)
(* 258EAFA5-E914-47DA-95CA-C5AB0DC85B11: 28 characters of the standard     *)
(* alphabet, the last one the only padding, which decode back to the       *)
(* digest; for the key dGhlIHNhbXBsZSBub25jZQ== it is                      *)
(* s3pPLMBiTxaQ9kYGzzhZRbK+xOo=.                                           *)
(***************************************************************************)
Base64Index(ch) == CHOOSE v \in 0..63 : Base64Alphabet[v + 1] = ch

\* the bytes a padded group of four characters stands for
Base64GroupBytes(g) ==
    LET v1 == Base64Index(g[1])
        v2 == Base64Index(g[2])
        v3 == IF g[3] = "=" THEN 0 ELSE Base64Index(g[3])
        v4 == IF g[4] = "=" THEN 0 ELSE Base64Index(g[4])
        b1 == (4 * v1) + (v2 \div 16)
        b2 == (16 * (v2 % 16)) + (v3 \div 4)
        b3 == (64 * (v3 % 4)) + v4
    IN  IF g[3] = "=" THEN <<b1>> ELSE IF g[4] = "=" THEN <<b1, b2>> ELSE <<b1, b2, b3>>

RECURSIVE Base64Decode(_)
Base64Decode(text) ==
    IF Len(text) < 4 THEN <<>>
    ELSE Base64GroupBytes(SubSeq(text, 1, 4)) \o Base64Decode(SubSeq(text, 5, Len(text)))

GuidText ==
    << "2", "5", "8", "E", "A", "F", "A", "5", "-", "E", "9", "1", "4", "-",
       "4", "7", "D", "A", "-", "9", "5", "C", "A", "-", "C", "5", "A", "B",
       "0", "D", "C", "8", "5", "B", "1", "1" >>

\* the ASCII code of a character of the constant
GuidCode(ch) ==
    CASE ch = "-" -> 45
      [] ch \in {"0", "1", "2", "3", "4", "5", "6", "7", "8", "9"} ->
            48 + (CHOOSE d \in 0..9 :
                    <<"0", "1", "2", "3", "4", "5", "6", "7", "8", "9">>[d + 1] = ch)
      [] OTHER -> 65 + (CHOOSE d \in 0..5 : <<"A", "B", "C", "D", "E", "F">>[d + 1] = ch)

HandshakeAccepted ==
    /\ handshake.tag = "Returned"
    /\ ~handshake.bad_req

AcceptValueIsBase64Sha1 ==
    HandshakeAccepted
        => LET out == handshake.response.arg
               digest == Sha1(FirstKeyValue \o [i \in 1..36 |-> GuidCode(GuidText[i])])
           IN  /\ Len(digest) = 20
               /\ \A i \in 1..20 : digest[i] \in 0..255
               /\ Len(out) = 28
               /\ \A i \in 1..27 : \E v \in 1..64 : Base64Alphabet[v] = out[i]
               /\ out[28] = "="
               /\ Base64Decode(out) = digest
               /\ out = accept_value(FirstKeyValue)
               /\ (FirstKeyValue = SampleKey) => out = SampleAccept

AcceptValueWitness ==
    /\ HandshakeAccepted
    /\ FirstKeyValue = SampleKey
    /\ Len(request.headers) = 1
    /\ handshake.response.arg = SampleAccept
    /\ Base64Decode(SampleAccept) = Sha1(SampleKey \o WebSocketGuid)

(***************************************************************************)
(* C13.  Echo: after an accepted handshake, every read the decoder accepts *)
(* with payload M makes handle_client call write_all exactly once, with    *)
(* write_ws_frame(M), before the next read is processed: the frames        *)
(* written are those of the accepted reads, in the order of the reads,     *)
(* and each carries the unmasked payload of its inbound frame.             *)
(***************************************************************************)
\* the position in writes of the write_all call made for read i
WritePosition(cl, i) == Cardinality({j \in WritingReads(cl) : j <= i})

\* the payload of a client frame, unmasked byte by byte
Unmasked(b) ==
    LET mi == IF (b[2] % 128) = 126 THEN 4 ELSE 2
        len == IF (b[2] % 128) = 126 THEN (256 * b[3]) + b[4] ELSE b[2] % 128
    IN  [j \in 1..len |-> Xor8(b[mi + 4 + j], b[mi + 1 + ((j - 1) % 4)])]

EchoInOrder ==
    \A c \in DOMAIN conn :
        LET R == conn[c].reads
            W == conn[c].writes
        IN  /\ Len(W) = Cardinality(WritingReads(conn[c]))
            /\ \A k \in 1..Len(W) :
                  W[k].kind = "frame"
                      => \E i \in 1..Len(R) :
                            R[i].outcome = "echoed" /\ WritePosition(conn[c], i) = k
            /\ \A i \in 1..Len(R) :
                  LET r == parse_ws_frame(R[i].bytes)
                      k == WritePosition(conn[c], i)
                  IN  /\ R[i].outcome = "pending"
                          => i = Len(R) /\ conn[c].pc \in {"handshake", "frame"}
                      /\ (R[i].to = "frame" /\ R[i].outcome # "pending")
                          => (r.tag = "Ok" <=> R[i].outcome = "echoed")
                      /\ R[i].outcome = "echoed"
                          => /\ R[i].to = "frame"
                             /\ \E j \in 1..(i - 1) : R[j].outcome = "accepted"
                             /\ R[i].wrote = 1
                             /\ W[k].kind = "frame"
                             /\ W[k].frame = write_ws_frame(r.message)
                             /\ r.message = Unmasked(R[i].bytes)
                             /\ W[k].frame =
                                  <<FinBinary>> \o length_bytes(Len(Unmasked(R[i].bytes)))
                                      \o Unmasked(R[i].bytes)

EchoInOrderWitness ==
    \E c \in DOMAIN conn :
        LET R == conn[c].reads
            W == conn[c].writes
        IN  /\ Len(R) = 3
            /\ R[2].outcome = "echoed" /\ R[2].bytes = ClientFrame(Hello, TestKey)
            /\ R[3].outcome = "echoed" /\ R[3].bytes = ClientFrame(<<>>, TestKey)
            /\ Len(W) = 3
            /\ W[2] = FrameWrite(<<130, 5, 72, 101, 108, 108, 111>>, TRUE)
            /\ W[3] = FrameWrite(<<130, 0>>, TRUE)

(***************************************************************************)
(* C14.  Decoder check order: parse_ws_frame tests, in this order,         *)
(* (1) fewer than 2 bytes -> Truncated, (2) FIN, (3) opcode, (4) MASK,     *)
(* (5) length field 127 -> PayloadTooLarge, (6) length field 126 with      *)
(* fewer than 4 bytes -> Truncated; a buffer that fails several of them    *)
(* gets the error of the first one it fails, and a buffer that fails none  *)
(* gets none of these errors.                                              *)
(***************************************************************************)
DecoderCheckOrder ==
    Decoded
        => IF Len(frame_buf) < 2 THEN parsed = Err(Truncated)
           ELSE IF frame_buf[1] \div 128 = 0 THEN parsed = Err(FragmentationUnsupported)
           ELSE IF frame_buf[1] % 16 # 2 THEN parsed = Err(UnsupportedOpcode)
           ELSE IF frame_buf[2] \div 128 = 0 THEN parsed = Err(MaskRequired)
           ELSE IF frame_buf[2] % 128 = 127 THEN parsed = Err(PayloadTooLarge)
           ELSE IF frame_buf[2] % 128 = 126 /\ Len(frame_buf) < 4
                THEN parsed = Err(Truncated)
           ELSE parsed.tag # "Err"

\* FIN = 0, opcode 1, MASK = 0 and the length field 127, all at once
DecoderCheckOrderWitness ==
    /\ Decoded
    /\ Len(frame_buf) >= 2
    /\ frame_buf[1] = 1
    /\ frame_buf[2] = 127
    /\ parsed = Err(FragmentationUnsupported)

(***************************************************************************)
(* C15.  Decoded length: whenever parse_ws_frame returns Ok, the message   *)
(* has exactly real_length bytes (the inline 7-bit value, or the           *)
(* big-endian 16-bit value after the 126 escape), its byte i is the buffer *)
(* byte at mask_key_offset + 4 + i XOR masking_key[i mod 4], and the bytes *)
(* of the buffer after the declared payload do not change the result.      *)
(***************************************************************************)
RealLength ==
    IF frame_buf[2] % 128 = 126 THEN (256 * frame_buf[3]) + frame_buf[4]
    ELSE frame_buf[2] % 128

MaskKeyOffset == IF frame_buf[2] % 128 = 126 THEN 4 ELSE 2

DecodedLength ==
    (Decoded /\ parsed.tag = "Ok")
        => /\ Len(parsed.message) = RealLength
           /\ \A i \in 0..(RealLength - 1) :
                 parsed.message[i + 1] =
                     XorBits(frame_buf[MaskKeyOffset + 4 + i + 1],
                             frame_buf[MaskKeyOffset + 1 + (i % 4)], 8)
           /\ Len(frame_buf) >= MaskKeyOffset + 4 + RealLength
           /\ parsed = parse_ws_frame(SubSeq(frame_buf, 1, MaskKeyOffset + 4 + RealLength))
           /\ tamper.shape.kind = "extra" => parsed = Ok(message)

DecodedLengthWitness ==
    /\ Decoded
    /\ tamper.shape.kind = "extra"
    /\ Len(message) = 126
    /\ frame_buf[2] = 254
    /\ Len(frame_buf) > 8 + 126
    /\ parsed = Ok(message)

(***************************************************************************)
(* C16.  Exact-case header match: handshake_response accepts a GET request *)
(* only when some header is named Sec-WebSocket-Key character for          *)
(* character; a GET request that carries the key only under a differently  *)
(* cased name (sec-websocket-key) gets the 400 response.                   *)
(***************************************************************************)
ExactNames == {request.headers[i].name : i \in 1..Len(request.headers)}

ExactCaseHeaderMatch ==
    (handshake # HandshakeNotCalled /\ request.parse # "Error"
        /\ request.method = <<"GET">>)
        => /\ HandshakeAccepted => "Sec-WebSocket-Key" \in ExactNames
           /\ ("sec-websocket-key" \in ExactNames /\ "Sec-WebSocket-Key" \notin ExactNames)
                 => handshake = Returned(BadResponse, TRUE)

ExactCaseHeaderWitness ==
    /\ request = Request("Complete", <<"GET">>,
                         << Header("Host", OtherKey),
                            Header("sec-websocket-key", SampleKey) >>)
    /\ handshake = Returned(BadResponse, TRUE)

(***************************************************************************)
(* C17.  Single accept path: parse_ws_frame returns Ok if and only if the  *)
(* buffer has FIN = 1, opcode = 2, MASK = 1, a length field other than 127 *)
(* and at least mask_key_offset + 4 + real_length bytes; every other       *)
(* buffer gets one of the five named errors; the result does not depend on *)
(* the three RSV bits of byte 0.                                           *)
(***************************************************************************)
NamedRejections ==
    {Err(Truncated), Err(FragmentationUnsupported), Err(UnsupportedOpcode),
     Err(MaskRequired), Err(PayloadTooLarge)}

\* the buffer with the RSV bits of byte 0 set to r (0..7)
WithRsv(b, r) ==
    IF Len(b) = 0 THEN b
    ELSE [b EXCEPT ![1] = (128 * (@ \div 128)) + (16 * r) + (@ % 16)]

SingleAcceptPath ==
    Decoded
        => /\ parsed.tag = "Ok" <=> (HeaderPasses /\ Len(frame_buf) >= NeededBytes)
           /\ parsed.tag # "Ok" => parsed \in NamedRejections
           /\ \A r \in 0..7 : parse_ws_frame(WithRsv(frame_buf, r)) = parsed

(***************************************************************************)
(* C18.  The server's own frames are never accepted by its own decoder:    *)
(* for every payload P of at most 65535 bytes,                             *)
(* parse_ws_frame(write_ws_frame(P)) fails with MaskRequired, because byte *)
(* 1 of the frame is a length of at most 125 or the value 126, with the    *)
(* MASK bit 0.                                                             *)
(***************************************************************************)
Redecoded == test = "encode" /\ frame # NoFrame /\ parsed # NotCalled

OwnFramesRejected ==
    (Redecoded /\ Len(message) <= MaxPayload)
        => /\ parsed = Err(MaskRequired)
           /\ frame[2] \div 128 = 0
           /\ frame[2] = (IF Len(message) <= 125 THEN Len(message) ELSE 126)

OwnFramesRejectedWitness ==
    /\ Redecoded
    /\ Len(message) = 126
    /\ frame[2] = 126
    /\ Len(frame) = 130
    /\ parsed = Err(MaskRequired)

(***************************************************************************)
(* C20.  Encoder length wrap-around: for a message of more than 65535      *)
(* bytes write_ws_frame still returns a frame: 0x82, the byte 126, the low *)
(* 16 bits of the length (len mod 65536) big-endian, then all len message  *)
(* bytes; the declared length differs from the number of payload bytes.    *)
(***************************************************************************)
EncoderLengthWraps ==
    (test = "encode" /\ frame # NoFrame /\ Len(message) > MaxPayload)
        => LET n == Len(message)
               declared == (256 * frame[3]) + frame[4]
           IN  /\ frame[1] = 130
               /\ frame[2] = 126
               /\ frame[3] = (n % 65536) \div 256
               /\ frame[4] = n % 256
               /\ declared = n % 65536
               /\ Len(frame) = 4 + n
               /\ SubSeq(frame, 5, 4 + n) = message
               /\ declared # n

EncoderLengthWrapsWitness ==
    /\ test = "encode"
    /\ Len(message) = 65836
    /\ Len(frame) = 65840
    /\ frame[2] = 126 /\ frame[3] = 1 /\ frame[4] = 44
    /\ parsed = NotCalled

(***************************************************************************)
(* C19.  No reassembly across reads: each read of at most 1024 bytes is    *)
(* decoded on its own and nothing is carried over to the next read.  So a  *)
(* payload that is echoed has at most 1016 bytes; a read that holds only   *)
(* the first part of a frame is not echoed and is the last read the task   *)
(* processes, so the frame is never echoed; and of a read that holds more  *)
(* than one frame the first frame alone is decoded and echoed.             *)
(***************************************************************************)
\* FIN = 1, opcode 2, MASK = 1 and a length field other than 127
FrameHeaderOk(b) ==
    /\ Len(b) >= 2
    /\ b[1] \div 128 = 1
    /\ b[1] % 16 = 2
    /\ b[2] \div 128 = 1
    /\ b[2] % 128 # 127

\* the bytes of the whole frame that b begins with; more than Len(b) when
\* the length field itself is cut off
FrameBytes(b) ==
    IF b[2] % 128 = 126
    THEN IF Len(b) < 4 THEN Len(b) + 1 ELSE 8 + (256 * b[3]) + b[4]
    ELSE 6 + (b[2] % 128)

NoReassembly ==
    \A c \in DOMAIN conn :
        LET R == conn[c].reads
            W == conn[c].writes
        IN  /\ Len(W) = Cardinality(WritingReads(conn[c]))
            /\ \A i \in 1..Len(R) :
                  LET b == R[i].bytes
                      k == WritePosition(conn[c], i)
                  IN  /\ R[i].n = Len(b)
                      /\ R[i].n <= BufSize
                      /\ (R[i].to = "frame" /\ R[i].outcome # "pending")
                          => /\ R[i].outcome = "echoed"
                                  <=> (FrameHeaderOk(b) /\ Len(b) >= FrameBytes(b))
                             /\ R[i].outcome # "echoed"
                                  => /\ i = Len(R)
                                     /\ conn[c].pc \in {"returned", "panicked"}
                                     /\ R[i].wrote = 0
                      /\ R[i].outcome = "echoed"
                          => /\ Len(Unmasked(b)) <= 1016
                             /\ Len(W[k].frame) <= 1020
                             /\ W[k].frame = write_ws_frame(Unmasked(b))
                             /\ W[k].frame =
                                  write_ws_frame(
                                      parse_ws_frame(SubSeq(b, 1, FrameBytes(b))).message)

NoReassemblyWitness ==
    \E c \in DOMAIN conn :
        LET R == conn[c].reads
            W == conn[c].writes
        IN  /\ Len(R) = 4
            /\ R[2].n = 1024
            /\ R[2].outcome = "echoed"
            /\ R[3].bytes = ClientFrame(Hello, TestKey) \o ClientFrame(<<>>, TestKey)
            /\ R[3].outcome = "echoed"
            /\ R[4].bytes = SubSeq(ClientFrame(Hello, TestKey), 1, 6)
            /\ R[4].outcome = "panic"
            /\ conn[c].pc = "panicked"
            /\ Len(W) = 3
            /\ Len(W[2].frame) = 1020
            /\ W[3] = FrameWrite(<<130, 5, 72, 101, 108, 108, 111>>, TRUE)

====
